---------------------------- MODULE Spec2Model ----------------------------
(***************************************************************************)
(* clamp_cast<To, From>: conversion of a binary floating-point value to an *)
(* integer type that clamps instead of running into the undefined          *)
(* behaviour of an out-of-range static_cast (src/clamp-cast.hpp).          *)
(*                                                                         *)
(* Numbers are kept exactly.  A magnitude is the set of the positions of   *)
(* its one bits: {0, 3} is 2^0 + 2^3 = 9, {-1} is 0.5, {63} is 2^63.  A    *)
(* floating-point value is [cls, neg, mag] with cls one of "fin", "inf",   *)
(* "nan"; an integer value is [neg, mag].  A floating-point type is what   *)
(* std::numeric_limits says about it (digits, min_exponent, max_exponent), *)
(* an integer type is [is_signed, digits].  All types are radix 2, and the *)
(* floating-point types are is_iec559, so the header's static_asserts pass.*)
(***************************************************************************)
EXTENDS Integers, FiniteSets

VARIABLES To, From, pc, lower, upper, first, second

vars == <<To, From, pc, lower, upper, first, second>>

---------------------------------------------------------------------------
(* Bounds of the small floating-point format whose values are all tried.   *)
ToyDigits == 3
ToyMaxExp == 4

---------------------------------------------------------------------------
(* Exact numbers                                                           *)

MaxBit(S) == CHOOSE i \in S : \A j \in S : j <= i

(* A < B for magnitudes: at the highest position where they differ, B has  *)
(* the bit.                                                                *)
MagLess(A, B) ==
  \E i \in B \ A : \A j \in (A \cup B) : j > i => (j \in A <=> j \in B)

(* x < y for signed magnitudes; -0 and +0 are equal.                       *)
NumLess(x, y) ==
  IF x.neg /\ ~y.neg THEN x.mag # {} \/ y.mag # {}
  ELSE IF ~x.neg /\ y.neg THEN FALSE
  ELSE IF x.neg THEN MagLess(y.mag, x.mag)
  ELSE MagLess(x.mag, y.mag)

NumLeq(x, y) == ~NumLess(y, x)

NumEq(x, y) == ~NumLess(x, y) /\ ~NumLess(y, x)

(* S + 2^i, and S - 2^i for a nonempty S with no bit below i.              *)
RECURSIVE AddBit(_, _)
AddBit(S, i) == IF i \in S THEN AddBit(S \ {i}, i + 1) ELSE S \cup {i}

RECURSIVE SubBit(_, _)
SubBit(S, i) == IF i \in S THEN S \ {i} ELSE SubBit(S \cup {i}, i + 1)

(* The one bits of a natural number below 2^24.                            *)
Bits(n) == {i \in 0..23 : (n \div (2^i)) % 2 = 1}

Shift(S, k) == {i + k : i \in S}

---------------------------------------------------------------------------
(* Floating-point values and types                                         *)

Fin(neg, mag) == [cls |-> "fin", neg |-> neg, mag |-> mag]
Inf(neg) == [cls |-> "inf", neg |-> neg, mag |-> {}]
NaN == [cls |-> "nan", neg |-> FALSE, mag |-> {}]

(* What a `return` of a function name where a From is needed amounts to:   *)
(* no value, the instantiation does not compile.                           *)
IllFormed == [cls |-> "ill_formed", neg |-> FALSE, mag |-> {}]

float == [digits |-> 24, min_exponent |-> -125, max_exponent |-> 128]
toyfloat ==
  [digits |-> ToyDigits, min_exponent |-> 3 - ToyMaxExp, max_exponent |-> ToyMaxExp]

(* The lowest bit a value of T with highest bit hi can have.               *)
LowBit(T, hi) ==
  IF hi - (T.digits - 1) >= T.min_exponent - T.digits
  THEN hi - (T.digits - 1) ELSE T.min_exponent - T.digits

IsMagOf(T, S) ==
  S = {} \/ (MaxBit(S) <= T.max_exponent - 1 /\ \A i \in S : i >= LowBit(T, MaxBit(S)))

IsValueOf(T, x) == x.cls \in {"inf", "nan"} \/ (x.cls = "fin" /\ IsMagOf(T, x.mag))

(* std::numeric_limits<T>::max(), lowest()                                 *)
FltMax(T) == Fin(FALSE, (T.max_exponent - T.digits)..(T.max_exponent - 1))
Lowest(T) == Fin(TRUE, (T.max_exponent - T.digits)..(T.max_exponent - 1))

(* Built-in comparisons of IEC 559 values: false whenever a NaN is involved*)
(* except for !=.                                                          *)
FLess(x, y) ==
  IF x.cls = "nan" \/ y.cls = "nan" THEN FALSE
  ELSE IF x.cls = "inf" THEN x.neg /\ ~(y.cls = "inf" /\ y.neg)
  ELSE IF y.cls = "inf" THEN ~y.neg
  ELSE NumLess(x, y)

FGeq(x, y) ==
  IF x.cls = "nan" \/ y.cls = "nan" THEN FALSE ELSE ~FLess(x, y)

FNeq(x, y) ==
  IF x.cls = "nan" \/ y.cls = "nan" THEN TRUE ELSE FLess(x, y) \/ FLess(y, x)

FNeg(x) == [x EXCEPT !.neg = ~x.neg]

(* result *= 2.0f: exact (the exponent goes up by one) until the result    *)
(* leaves T's exponent range, and then rounds to infinity.                 *)
FMul2(T, x) ==
  IF x.cls # "fin" \/ x.mag = {} THEN x
  ELSE IF MaxBit(x.mag) + 1 > T.max_exponent - 1 THEN Inf(x.neg)
  ELSE Fin(x.neg, Shift(x.mag, 1))

---------------------------------------------------------------------------
(* Integer values and types                                                *)

Int_(neg, mag) == [neg |-> neg, mag |-> mag]
IntZero == Int_(FALSE, {})

uint8_t == [is_signed |-> FALSE, digits |-> 8]
int8_t == [is_signed |-> TRUE, digits |-> 7]
int64_t == [is_signed |-> TRUE, digits |-> 63]
uint128_t == [is_signed |-> FALSE, digits |-> 128]

(* std::numeric_limits<To>::min(), max()                                   *)
ToMin(T) == IF T.is_signed THEN Int_(TRUE, {T.digits}) ELSE IntZero
ToMax(T) == Int_(FALSE, 0..(T.digits - 1))

InRange(T, n) == NumLeq(ToMin(T), n) /\ NumLeq(n, ToMax(T))

(* The fractional part discarded.                                          *)
Trunc(x) ==
  LET m == {i \in x.mag : i >= 0} IN Int_(x.neg /\ m # {}, m)

(* What a conversion that is undefined behaviour can leave in a To: any    *)
(* value of a To of up to 8 value bits; for a wider To, whose values are   *)
(* too many to list, what conversion instructions leave on overflow (the   *)
(* minimum, the saturated maximum, zero).                                  *)
UBResults(T) ==
  IF T.digits <= 8
  THEN {n \in {Int_(s, m) : s \in BOOLEAN, m \in SUBSET (0..T.digits)} :
          InRange(T, n) /\ (n.mag = {} => ~n.neg)}
  ELSE {ToMin(T), ToMax(T), IntZero}

(* A conversion that rounds to nearest, halves away from zero, where the   *)
(* code truncates.                                                         *)
static_cast_round(T, from) ==
  IF from.cls = "fin" /\ InRange(T, Trunc(from))
  THEN {[value |-> IF -1 \in from.mag
                   THEN Int_(from.neg, AddBit(Trunc(from).mag, 0))
                   ELSE Trunc(from),
         ub |-> FALSE, branch |-> "cast"]}
  ELSE {[value |-> n, ub |-> TRUE, branch |-> "cast"] : n \in UBResults(T)}

(* static_cast<To>(from): defined when from is finite and its truncation   *)
(* is a value of To, undefined behaviour otherwise.                        *)
static_cast(T, from) ==
  IF from.cls = "fin" /\ InRange(T, Trunc(from))
  THEN {[value |-> Trunc(from), ub |-> FALSE, branch |-> "cast"]}
  ELSE {[value |-> n, ub |-> TRUE, branch |-> "cast"] : n \in UBResults(T)}

---------------------------------------------------------------------------
(* src/clamp-cast.hpp                                                      *)

(* The loop with `i <= exp` for `i < exp`.                                 *)
RECURSIVE exp2_loop_once_more(_, _, _, _)
exp2_loop_once_more(T, result, i, exp) ==
  IF i <= exp /\ result = result
  THEN exp2_loop_once_more(T, FMul2(T, result), i + 1, exp)
  ELSE result

(* The loop.  `result = result` is true and only makes the accumulator be  *)
(* evaluated in every iteration, as the loop does, instead of as one       *)
(* nested product after the last.                                          *)
RECURSIVE exp2_loop(_, _, _, _)
exp2_loop(T, result, i, exp) ==
  IF i < exp /\ result = result
  THEN exp2_loop(T, FMul2(T, result), i + 1, exp)
  ELSE result

(* T result{1.0}; for (int i{0}; i < exp; ++i) result *= 2.0f;             *)
exp2(T, exp) == exp2_loop(T, Fin(FALSE, {0}), 0, exp)

exponent_bits(T) == T.max_exponent - 1

(* `t != t` folded to false, as under -ffast-math.                         *)
is_nan_folded(t) == FALSE

(* return t != t;                                                          *)
is_nan(t) == FNeq(t, t)

(* The lower bound without its minus sign.                                 *)
lower_bound_inclusive_positive(T, F) ==
  IF T.is_signed
  THEN IF exponent_bits(F) >= T.digits
       THEN exp2(F, T.digits)
       ELSE IllFormed
  ELSE Fin(FALSE, {})

(* The else branch of the inner `if constexpr` returns the name of the     *)
(* member function std::numeric_limits<From>::lowest, not a call of it: a  *)
(* pointer to function does not convert to From, so an instantiation that  *)
(* takes this branch is ill-formed.                                        *)
lower_bound_inclusive(T, F) ==
  IF T.is_signed
  THEN IF exponent_bits(F) >= T.digits
       THEN FNeg(exp2(F, T.digits))
       ELSE IllFormed
  ELSE Fin(FALSE, {})

(* The bound taken from To's width, sign bit included, instead of from    *)
(* its value bits.                                                         *)
upper_bound_exclusive_width(T, F) ==
  IF exponent_bits(F) >= T.digits
  THEN exp2(F, IF T.is_signed THEN T.digits + 1 ELSE T.digits)
  ELSE IllFormed

(* Likewise std::numeric_limits<From>::infinity in the else branch.        *)
upper_bound_exclusive(T, F) ==
  IF exponent_bits(F) >= T.digits
  THEN exp2(F, T.digits)
  ELSE IllFormed

(* `from > upper` for `from >= upper`.                                     *)
clamp_cast_gt(T, F, from) ==
  IF is_nan(from)
  THEN {[value |-> IntZero, ub |-> FALSE, branch |-> "nan"]}
  ELSE IF FLess(from, lower_bound_inclusive(T, F))
  THEN {[value |-> ToMin(T), ub |-> FALSE, branch |-> "low"]}
  ELSE IF FLess(upper_bound_exclusive(T, F), from)
  THEN {[value |-> ToMax(T), ub |-> FALSE, branch |-> "high"]}
  ELSE static_cast(T, from)

(* min() and max() returned by each other's branch.                        *)
clamp_cast_swapped(T, F, from) ==
  IF is_nan(from)
  THEN {[value |-> IntZero, ub |-> FALSE, branch |-> "nan"]}
  ELSE IF FLess(from, lower_bound_inclusive(T, F))
  THEN {[value |-> ToMax(T), ub |-> FALSE, branch |-> "low"]}
  ELSE IF FGeq(from, upper_bound_exclusive(T, F))
  THEN {[value |-> ToMin(T), ub |-> FALSE, branch |-> "high"]}
  ELSE static_cast(T, from)

(* The outcomes of one call: what is returned, whether the call ran into   *)
(* undefined behaviour, and the branch that returned.                      *)
clamp_cast(T, F, from) ==
  IF is_nan(from)
  THEN {[value |-> IntZero, ub |-> FALSE, branch |-> "nan"]}
  ELSE IF FLess(from, lower_bound_inclusive(T, F))
  THEN {[value |-> ToMin(T), ub |-> FALSE, branch |-> "low"]}
  ELSE IF FGeq(from, upper_bound_exclusive(T, F))
  THEN {[value |-> ToMax(T), ub |-> FALSE, branch |-> "high"]}
  ELSE static_cast(T, from)

---------------------------------------------------------------------------
(* src/test.cpp: the inputs of the tests                                   *)

MagUp(T, S) ==
  IF S = {} THEN {T.min_exponent - T.digits} ELSE AddBit(S, LowBit(T, MaxBit(S)))

MagDown(T, S) ==
  SubBit(S, IF S = {MaxBit(S)} THEN LowBit(T, MaxBit(S) - 1) ELSE LowBit(T, MaxBit(S)))

(* std::nextafter(x, to) for a finite x and to = +-INFINITY.               *)
nextafter(T, x, to) ==
  IF x.mag = {} THEN Fin(to.neg, MagUp(T, {}))
  ELSE IF x.neg = to.neg
  THEN IF MaxBit(MagUp(T, x.mag)) > T.max_exponent - 1
       THEN Inf(x.neg) ELSE Fin(x.neg, MagUp(T, x.mag))
  ELSE Fin(x.neg, MagDown(T, x.mag))

(* An integer literal, and a literal with k binary places.                 *)
Lit(n) == Fin(n < 0, Bits(IF n < 0 THEN -n ELSE n))
LitFrac(n, k) == Fin(n < 0, Shift(Bits(IF n < 0 THEN -n ELSE n), -k))

(* const float bound{std::exp2f(63.0)};                                    *)
bound == Fin(FALSE, {63})

(* The arguments of the test cases, and around them: the infinities, the   *)
(* zeros and values with a fractional part next to the limits.             *)
TestInputs ==
  {NaN, Inf(FALSE), Inf(TRUE), FltMax(float), Lowest(float), Fin(TRUE, {})}
  \cup {Lit(n) : n \in {0, 1, -1, 254, 255, 256, 126, 127, 128, -127, -128, -129}}
  \cup {LitFrac(n, 1) : n \in {1, -1, 511, 513, 255, 257, -255, -257, -259}}
  \cup {bound, FNeg(bound),
        nextafter(float, FNeg(bound), Inf(TRUE)), nextafter(float, FNeg(bound), Inf(FALSE)),
        nextafter(float, bound, Inf(TRUE)), nextafter(float, bound, Inf(FALSE))}

(* Every value of T.                                                       *)
AllValues(T) ==
  {NaN, Inf(FALSE), Inf(TRUE)}
  \cup {Fin(s, m) : s \in BOOLEAN,
        m \in {S \in SUBSET ((T.min_exponent - T.digits)..(T.max_exponent - 1)) : IsMagOf(T, S)}}

Inputs(T) == IF T = float THEN TestInputs ELSE AllValues(T)

(* The instantiations: those of the tests, the one the tests could not try *)
(* (a 128-bit integer), and the small format with integers up to one       *)
(* power of two beyond what it represents.                                 *)
TypePairs ==
  {<<T, float>> : T \in {uint8_t, int8_t, int64_t, uint128_t}}
  \cup {<<[is_signed |-> s, digits |-> d], toyfloat>> : s \in BOOLEAN, d \in 2..ToyMaxExp}

---------------------------------------------------------------------------
(* The state machine: an instantiation clamp_cast<To, From> is compiled    *)
(* and, when it compiles, called twice.                                    *)

NoValue == [cls |-> "none", neg |-> FALSE, mag |-> {}]
NoCall == [from |-> NoValue, value |-> IntZero, ub |-> FALSE, branch |-> "none"]

Call(from, o) == [from |-> from, value |-> o.value, ub |-> o.ub, branch |-> o.branch]

Init ==
  /\ \E p \in TypePairs : To = p[1] /\ From = p[2]
  /\ pc = "template"
  /\ lower = NoValue
  /\ upper = NoValue
  /\ first = NoCall
  /\ second = NoCall

(* The bounds are constant expressions of the instantiation.               *)
Instantiate ==
  /\ pc = "template"
  /\ lower' = lower_bound_inclusive(To, From)
  /\ upper' = upper_bound_exclusive(To, From)
  /\ pc' = IF lower' = IllFormed \/ upper' = IllFormed THEN "ill_formed" ELSE "instantiated"
  /\ UNCHANGED <<To, From, first, second>>

CallFirst ==
  /\ pc = "instantiated"
  /\ \E from \in Inputs(From) : \E o \in clamp_cast(To, From, from) :
       first' = Call(from, o)
  /\ pc' = "one"
  /\ UNCHANGED <<To, From, lower, upper, second>>

CallSecond ==
  /\ pc = "one"
  /\ \E from \in Inputs(From) : \E o \in clamp_cast(To, From, from) :
       second' = Call(from, o)
  /\ pc' = "two"
  /\ UNCHANGED <<To, From, lower, upper, first>>

Next == Instantiate \/ CallFirst \/ CallSecond

Spec == Init /\ [][Next]_vars

---------------------------------------------------------------------------
(* The claims                                                              *)

(* The calls made so far.                                                  *)
Calls == {c \in {first, second} : c.branch # "none"}

IsInteger(x) == \A i \in x.mag : i >= 0

(* The truncation of a non-NaN v clamped to [To.min, To.max].              *)
ClampedTrunc(T, v) ==
  IF v.cls = "inf" THEN (IF v.neg THEN ToMin(T) ELSE ToMax(T))
  ELSE IF NumLess(Trunc(v), ToMin(T)) THEN ToMin(T)
  ELSE IF NumLess(ToMax(T), Trunc(v)) THEN ToMax(T)
  ELSE Trunc(v)

(* 2^hi - 2^lo                                                             *)
PowDiff(hi, lo) == lo..(hi - 1)

(* C1: no call runs into undefined behaviour: the native conversion of the *)
(* last branch is only reached with a finite, non-NaN value whose          *)
(* truncation toward zero lies within [To.min, To.max].                    *)
C1_NoUndefinedBehaviour ==
  \A c \in Calls :
    /\ ~c.ub
    /\ c.branch = "cast" =>
         c.from.cls = "fin" /\ InRange(To, Trunc(c.from))

(* The native conversion was reached at both ends of a signed To's range,  *)
(* the upper one with a fractional part on top.                            *)
C1_Witness ==
  /\ To.is_signed
  /\ first.branch = "cast" /\ -1 \in first.from.mag /\ Trunc(first.from) = ToMax(To)
  /\ second.branch = "cast" /\ Trunc(second.from) = ToMin(To)

(* C2: for a non-NaN input the result is the truncation toward zero        *)
(* clamped to [To.min, To.max]: To.min below (and for -infinity), To.max   *)
(* above (and for +infinity), the truncation otherwise.                    *)
C2_ClampedTruncation ==
  \A c \in Calls : c.from.cls # "nan" => c.value = ClampedTrunc(To, c.from)

(* -infinity went to To.min and a finite value beyond To.max to To.max.    *)
C2_Witness ==
  /\ first.branch # "none" /\ first.from = Inf(TRUE) /\ first.value = ToMin(To)
  /\ second.branch # "none" /\ second.from.cls = "fin"
  /\ NumLess(ToMax(To), Trunc(second.from)) /\ second.value = ToMax(To)

(* C3: NaN is converted to 0, by the first branch, whatever To is.         *)
C3_NaNIsZero ==
  \A c \in Calls : c.from.cls = "nan" => c.value = IntZero /\ c.branch = "nan"

(* NaN was converted to a signed To (whose minimum is not 0).              *)
C3_Witness ==
  To.is_signed /\ first.branch # "none" /\ first.from = NaN /\ first.value = IntZero

(* C4: a non-NaN value at or above upper_bound_exclusive gives To's        *)
(* maximum, one below lower_bound_inclusive gives To's minimum.            *)
C4_Saturation ==
  \A c \in Calls : c.from.cls # "nan" =>
    /\ FGeq(c.from, upper) => c.value = ToMax(To)
    /\ FLess(c.from, lower) => c.value = ToMin(To)

(* The upper bound itself was saturated, and so was a finite value below   *)
(* the lower bound.                                                        *)
C4_Witness ==
  /\ first.branch # "none" /\ first.from = upper /\ first.value = ToMax(To)
  /\ second.branch # "none" /\ second.from.cls = "fin"
  /\ FLess(second.from, lower) /\ second.value = ToMin(To)

(* C5: a value within [lower_bound_inclusive, upper_bound_exclusive) is    *)
(* converted by discarding its fractional part; an integer-valued input    *)
(* within To's range is returned unchanged.                                *)
C5_IdentityOnRange ==
  \A c \in Calls :
    /\ (c.from.cls # "nan" /\ FGeq(c.from, lower) /\ FLess(c.from, upper)) =>
         c.value = Trunc(c.from)
    /\ (c.from.cls = "fin" /\ IsInteger(c.from) /\ InRange(To, Trunc(c.from))) =>
         NumEq(c.value, c.from)

(* A negative value with a fractional part was truncated to a nonzero      *)
(* integer, and To's maximum was returned unchanged.                       *)
C5_Witness ==
  /\ first.branch = "cast" /\ first.from.neg /\ -1 \in first.from.mag
  /\ first.value # IntZero /\ first.value = Trunc(first.from)
  /\ second.branch = "cast" /\ NumEq(second.from, ToMax(To)) /\ second.value = ToMax(To)

(* C6: for finite a <= b, clamp_cast(a) <= clamp_cast(b).                  *)
C6_Monotonic ==
  (/\ first.branch # "none" /\ second.branch # "none"
   /\ first.from.cls = "fin" /\ second.from.cls = "fin"
   /\ NumLeq(first.from, second.from))
  => NumLeq(first.value, second.value)

(* A saturated value below the lower bound and the bound itself, and in    *)
(* the same way a value below the upper bound and the bound.               *)
C6_Witness ==
  \/ /\ first.branch = "low" /\ first.from.cls = "fin"
     /\ second.branch = "cast" /\ second.from = lower
  \/ /\ first.branch = "cast" /\ NumLess(first.value, second.value)
     /\ second.branch = "high" /\ second.from = upper

(* C7: every finite value outside the bounds would overflow or underflow   *)
(* To's range if converted by truncation.                                  *)
C7_OutsideBoundsOverflow ==
  \A c \in Calls :
    (c.from.cls = "fin" /\ (FLess(c.from, lower) \/ FGeq(c.from, upper))) =>
      ~InRange(To, Trunc(c.from))

(* C8 as the specification states it: for To = int64_t and From = float,   *)
(* -2^63 and the float below it give To's minimum, and the float above     *)
(* -2^63 gives -2^63 + 2^(63-23).                                          *)
C8_BoundaryAsStated ==
  (To = int64_t /\ From = float) =>
    \A c \in Calls :
      /\ c.from = FNeg(bound) => c.value = ToMin(To)
      /\ c.from = nextafter(float, FNeg(bound), Inf(TRUE)) => c.value = ToMin(To)
      /\ c.from = nextafter(float, FNeg(bound), Inf(FALSE)) =>
           NumLess(ToMin(To), c.value) /\ c.value = Int_(TRUE, PowDiff(63, 63 - 23))

(* C8, amended: the float above -2^63 gives -2^63 + 2^(63-24), which is    *)
(* -9223371487098961920.                                                   *)
C8_Boundary ==
  (To = int64_t /\ From = float) =>
    \A c \in Calls :
      /\ c.from = FNeg(bound) => c.value = ToMin(To)
      /\ c.from = nextafter(float, FNeg(bound), Inf(TRUE)) => c.value = ToMin(To)
      /\ c.from = nextafter(float, FNeg(bound), Inf(FALSE)) =>
           NumLess(ToMin(To), c.value) /\ c.value = Int_(TRUE, PowDiff(63, 63 - 24))

(* The floats next to -2^63 on both sides were converted to int64_t.       *)
C8_Witness ==
  /\ To = int64_t /\ From = float
  /\ first.branch # "none" /\ first.from = nextafter(float, FNeg(bound), Inf(FALSE))
  /\ second.branch # "none" /\ second.from = nextafter(float, FNeg(bound), Inf(TRUE))

(* C9: the lower bound is 0 for an unsigned To, -2^to_bits for a signed To *)
(* when From's max_exponent - 1 >= to_bits, and From's lowest finite value *)
(* otherwise; the upper bound is 2^to_bits under the same condition and    *)
(* +infinity otherwise.                                                    *)
C9_BoundDeriver ==
  pc # "template" =>
    /\ lower = IF ~To.is_signed THEN Fin(FALSE, {})
               ELSE IF From.max_exponent - 1 >= To.digits THEN Fin(TRUE, {To.digits})
               ELSE Lowest(From)
    /\ upper = IF From.max_exponent - 1 >= To.digits THEN Fin(FALSE, {To.digits})
               ELSE Inf(FALSE)

(* C10: when From's max_exponent - 1 < to_bits, no finite value of From    *)
(* is beyond To's maximum or, for a signed To, its minimum; the bounds are *)
(* From's lowest finite value (0 for an unsigned To) and +infinity, only   *)
(* +infinity gives To's maximum, only -infinity (or a negative value, for  *)
(* an unsigned To) gives To's minimum, and what reaches the native         *)
(* conversion is in range.                                                 *)
C10_Fallback ==
  (From.max_exponent - 1 < To.digits /\ pc # "template") =>
    /\ \A v \in Inputs(From) : v.cls = "fin" =>
         /\ NumLeq(Trunc(v), ToMax(To))
         /\ To.is_signed => NumLeq(ToMin(To), Trunc(v))
    /\ pc # "ill_formed"
    /\ lower = IF To.is_signed THEN Lowest(From) ELSE Fin(FALSE, {})
    /\ upper = Inf(FALSE)
    /\ \A c \in Calls :
         /\ c.branch = "high" => c.from = Inf(FALSE)
         /\ c.branch = "low" =>
              c.from = Inf(TRUE) \/ (~To.is_signed /\ FLess(c.from, Fin(FALSE, {})))
         /\ c.branch = "cast" => InRange(To, Trunc(c.from))

===========================================================================
